---- MODULE Spec2Model ----
(***************************************************************************)
(* HybridLogicalClock (lib/Basics/HybridLogicalClock.h): a 64-bit hybrid   *)
(* logical clock.  A time stamp packs a 44-bit time and a 20-bit counter   *)
(* into one uint64_t held in the atomic lastTimeStamp; getTimeStamp() and  *)
(* getTimeStamp(receivedTimeStamp) are read-compute-compare_exchange loops.*)
(*                                                                         *)
(* TLC's integers are 32 bits wide, so a uint64_t is modelled as a record  *)
(* of three limbs, [h |-> bits 40..63, m |-> bits 20..39, l |-> bits 0..19]*)
(* and every operation of the code on a uint64_t (>>, <<, &, |, +1, <=,    *)
(* ==, std::max) is computed limb by limb with the 64-bit width kept.      *)
(***************************************************************************)
EXTENDS Integers, Sequences, FiniteSets, TLC

\* ------------------------------------------------------------------------
\* Program constants
\* ------------------------------------------------------------------------

\* the shift of extractTime / assembleTimeStamp: t >> 20, time << 20
CountBits == 20

\* the width of uint64_t
WordBits == 64

\* 2^20: one more than the mask 0xfffffUL of extractCount
CountMod == 2 ^ CountBits

\* 2^24: the number of values of the top limb (bits 40..63)
HighMod == 2 ^ (WordBits - 2 * CountBits)

\* 2^4: what is left of the top limb's 24 bits when a value is shifted left by 20
HighKeep == 2 ^ (WordBits - 3 * CountBits)

\* ------------------------------------------------------------------------
\* uint64_t arithmetic on limbs
\* ------------------------------------------------------------------------

\* the uint64_t with the given three limbs
U64(h, m, l) == [h |-> h, m |-> m, l |-> l]

\* the uint64_t 0 (the constructor's lastTimeStamp(0), and the literal 0)
Zero == U64(0, 0, 0)

\* a small non-negative integer n (n < 2^31) as a uint64_t
FromInt(n) == U64(0, n \div CountMod, n % CountMod)

\* bitwise or of two non-negative integers
RECURSIVE BitOr(_, _)
BitOr(a, b) ==
    IF a = 0 THEN b
    ELSE IF b = 0 THEN a
    ELSE (IF a % 2 = 1 \/ b % 2 = 1 THEN 1 ELSE 0) + 2 * BitOr(a \div 2, b \div 2)

\* a | b on uint64_t
Or64(a, b) == U64(BitOr(a.h, b.h), BitOr(a.m, b.m), BitOr(a.l, b.l))

\* a < b on uint64_t (unsigned)
Less(a, b) ==
    \/ a.h < b.h
    \/ a.h = b.h /\ a.m < b.m
    \/ a.h = b.h /\ a.m = b.m /\ a.l < b.l

\* a <= b on uint64_t (unsigned)
Leq(a, b) == a = b \/ Less(a, b)

\* (std::max)(a, b) on uint64_t: a < b ? b : a
Max64(a, b) == IF Less(a, b) THEN b ELSE a

\* a + 1 on uint64_t, wrapping at 2^64
Add1(a) ==
    IF a.l + 1 < CountMod THEN U64(a.h, a.m, a.l + 1)
    ELSE IF a.m + 1 < CountMod THEN U64(a.h, a.m + 1, 0)
    ELSE U64((a.h + 1) % HighMod, 0, 0)

\* ------------------------------------------------------------------------
\* The private helpers of HybridLogicalClock
\* ------------------------------------------------------------------------

\* t >> 20 on uint64_t
Shr20(t) == U64(t.h \div CountMod, t.h % CountMod, t.m)

\* t << 20 on uint64_t: the top 20 bits are shifted out
Shl20(t) == U64((t.h % HighKeep) * CountMod + t.m, t.l, 0)

\* t & 0xfffffUL on uint64_t
AndMask(t) == U64(0, 0, t.l)

\* static uint64_t extractTime(uint64_t t) { return t >> 20; }
extractTime(t) == Shr20(t)

\* static uint64_t extractCount(uint64_t t) { return t & 0xfffffUL; }
extractCount(t) == AndMask(t)

\* static uint64_t assembleTimeStamp(uint64_t time, uint64_t count)
\*   { return (time << 20) | count; }
assembleTimeStamp(time, count) == Or64(Shl20(time), count)

\* ------------------------------------------------------------------------
\* The candidate computed by one pass of each loop body
\* ------------------------------------------------------------------------

\* a getTimeStamp() that compares with < where the code has <=
tickNewTimeStampStrict(physical, oldTimeStamp) ==
    LET oldTime == extractTime(oldTimeStamp)
    IN  IF Less(physical, oldTime)
        THEN assembleTimeStamp(oldTime, Add1(extractCount(oldTimeStamp)))
        ELSE assembleTimeStamp(physical, Zero)

\* a getTimeStamp() that takes the counter from oldTime, as the merge does
tickNewTimeStampFromTime(physical, oldTimeStamp) ==
    LET oldTime == extractTime(oldTimeStamp)
    IN  IF Leq(physical, oldTime)
        THEN assembleTimeStamp(oldTime, Add1(extractCount(oldTime)))
        ELSE assembleTimeStamp(physical, Zero)

\* a getTimeStamp() that takes the physical time for the time field when
\* the physical time is not ahead
tickNewTimeStampPhysical(physical, oldTimeStamp) ==
    LET oldTime == extractTime(oldTimeStamp)
    IN  IF Leq(physical, oldTime)
        THEN assembleTimeStamp(physical, Add1(extractCount(oldTimeStamp)))
        ELSE assembleTimeStamp(physical, Zero)

\* getTimeStamp(), lines 52-55: the new time stamp from the physical time
\* read and the value loaded from lastTimeStamp
tickNewTimeStamp(physical, oldTimeStamp) ==
    LET oldTime == extractTime(oldTimeStamp)
    IN  IF Leq(physical, oldTime)
        THEN assembleTimeStamp(oldTime, Add1(extractCount(oldTimeStamp)))
        ELSE assembleTimeStamp(physical, Zero)

\* a merge that leaves the physical time out of the maximum
recvNewTimeNoPhysical(physical, oldTimeStamp, receivedTimeStamp) ==
    Max64(extractTime(oldTimeStamp), extractTime(receivedTimeStamp))

\* getTimeStamp(receivedTimeStamp), line 70
recvNewTime(physical, oldTimeStamp, receivedTimeStamp) ==
    Max64(Max64(extractTime(oldTimeStamp), physical), extractTime(receivedTimeStamp))

\* a merge that does not reset the counter when the physical time is ahead
recvNewCountNoReset(physical, oldTimeStamp, receivedTimeStamp) ==
    LET oldTime == extractTime(oldTimeStamp)
        recTime == extractTime(receivedTimeStamp)
        newTime == recvNewTime(physical, oldTimeStamp, receivedTimeStamp)
    IN  IF newTime = oldTime
        THEN IF newTime = recTime
             THEN Add1(Max64(extractCount(oldTime), extractCount(recTime)))
             ELSE Add1(extractCount(oldTime))
        ELSE Add1(extractCount(recTime))

\* getTimeStamp(receivedTimeStamp), lines 72-88: extractCount is applied to
\* oldTime and recTime, the values already shifted right by 20
recvNewCount(physical, oldTimeStamp, receivedTimeStamp) ==
    LET oldTime == extractTime(oldTimeStamp)
        recTime == extractTime(receivedTimeStamp)
        newTime == recvNewTime(physical, oldTimeStamp, receivedTimeStamp)
    IN  IF newTime = oldTime
        THEN IF newTime = recTime
             THEN Add1(Max64(extractCount(oldTime), extractCount(recTime)))
             ELSE Add1(extractCount(oldTime))
        ELSE IF newTime = recTime
             THEN Add1(extractCount(recTime))
             ELSE Zero

\* getTimeStamp(receivedTimeStamp), line 89
recvNewTimeStamp(physical, oldTimeStamp, receivedTimeStamp) ==
    assembleTimeStamp(recvNewTime(physical, oldTimeStamp, receivedTimeStamp),
                      recvNewCount(physical, oldTimeStamp, receivedTimeStamp))

\* ------------------------------------------------------------------------
\* The string codec.  A std::string is a sequence of bytes (0 .. 255).
\* ------------------------------------------------------------------------

\* the bits of one symbol: t & 0x3ful, t >>= 6, r << 6
SymbolBits == 6

\* 2^6, the number of symbols
SymbolMod == 2 ^ SymbolBits

\* 2^14: what is left of a 20-bit limb when 6 bits are shifted out of it
LimbRest == 2 ^ (CountBits - SymbolBits)

\* 2^18: what is left of the top limb's 24 bits when it is shifted left by 6
HighRest == 2 ^ (WordBits - 2 * CountBits - SymbolBits)

\* std::string r(11, '\x00'); size_t pos = 11;
EncodedMax == 11

\* the values of a byte: decodeTable[256]
ByteMod == 256

\* encodeTable[65]: 64 symbols whose byte order is the order of their values
\* (and a terminating 0): "-0123456789A..Z_a..z"
encodeTable ==
    << 45 >> \o [i \in 1 .. 10 |-> 47 + i] \o [i \in 1 .. 26 |-> 64 + i]
       \o << 95 >> \o [i \in 1 .. 26 |-> 96 + i]

\* decodeTable[256]: the value of each symbol, and a negative entry for every
\* byte that is no symbol
decodeTable(b) ==
    IF \E n \in 1 .. SymbolMod : encodeTable[n] = b
    THEN (CHOOSE n \in 1 .. SymbolMod : encodeTable[n] = b) - 1
    ELSE -1

\* static_cast<uint8_t>(c) of a table entry c
AsUint8(c) == c % ByteMod

\* the value of a table entry read into a plain char: char is signed or
\* unsigned as the platform's ABI and the compiler's flags decide
AsChar(c, charSigned) == IF charSigned THEN c ELSE c % ByteMod

\* t & 0x3ful, as an index
Low6(t) == t.l % SymbolMod

\* a right shift by 6 that loses the bits crossing from one limb to the next
Shr6NoCarry(t) ==
    U64(t.h \div SymbolMod, t.m \div SymbolMod, t.l \div SymbolMod)

\* t >> 6 on uint64_t
Shr6(t) ==
    U64(t.h \div SymbolMod,
        t.m \div SymbolMod + (t.h % SymbolMod) * LimbRest,
        t.l \div SymbolMod + (t.m % SymbolMod) * LimbRest)

\* r << 6 on uint64_t: the top 6 bits are shifted out
Shl6(r) ==
    U64((r.h % HighRest) * SymbolMod + r.m \div LimbRest,
        (r.m % LimbRest) * SymbolMod + r.l \div LimbRest,
        (r.l % LimbRest) * SymbolMod)

\* a loop that fills all 11 characters, leading zero groups included
RECURSIVE encodeLoopFixed(_, _)
encodeLoopFixed(t, r) ==
    IF Len(r) = EncodedMax THEN r
    ELSE encodeLoopFixed(Shr6(t), << encodeTable[Low6(t) + 1] >> \o r)

\* a loop that writes the least significant group first
RECURSIVE encodeLoopReversed(_, _)
encodeLoopReversed(t, r) ==
    IF t = Zero THEN r
    ELSE encodeLoopReversed(Shr6(t), r \o << encodeTable[Low6(t) + 1] >>)

\* the loop of encodeTimeStamp, lines 98-101: the symbols written so far are
\* r[pos .. 10]; returns them when t reaches 0 (line 102, r.substr(pos, 11-pos))
RECURSIVE encodeLoop(_, _)
encodeLoop(t, r) ==
    IF t = Zero THEN r
    ELSE encodeLoop(Shr6(t), << encodeTable[Low6(t) + 1] >> \o r)

\* static std::string encodeTimeStamp(uint64_t t)
encodeTimeStamp(t) == encodeLoop(t, << >>)

\* the loop of decodeTimeStamp, lines 107-110, from index i with r accumulated
RECURSIVE decodeLoop(_, _, _)
decodeLoop(s, i, r) ==
    IF i > Len(s) THEN r
    ELSE decodeLoop(s, i + 1,
             Or64(Shl6(r), U64(0, 0, AsUint8(decodeTable(s[i])))))

\* static uint64_t decodeTimeStamp(std::string const& s)
decodeTimeStamp(s) == decodeLoop(s, 1, Zero)

\* a checked loop that also rejects the symbol of value 0
RECURSIVE decodeCheckLoopStrict(_, _, _, _)
decodeCheckLoopStrict(s, i, r, charSigned) ==
    IF i > Len(s) THEN r
    ELSE LET c == AsChar(decodeTable(s[i]), charSigned)
         IN  IF c <= 0 THEN Zero
             ELSE decodeCheckLoopStrict(s, i + 1,
                      Or64(Shl6(r), U64(0, 0, AsUint8(c))), charSigned)

\* the loop of decodeTimeStampWithCheck, lines 117-123
RECURSIVE decodeCheckLoop(_, _, _, _)
decodeCheckLoop(s, i, r, charSigned) ==
    IF i > Len(s) THEN r
    ELSE LET c == AsChar(decodeTable(s[i]), charSigned)
         IN  IF c < 0 THEN Zero
             ELSE decodeCheckLoop(s, i + 1,
                      Or64(Shl6(r), U64(0, 0, AsUint8(c))), charSigned)

\* static uint64_t decodeTimeStampWithCheck(std::string const& s)
decodeTimeStampWithCheck(s, charSigned) == decodeCheckLoop(s, 1, Zero, charSigned)

\* ------------------------------------------------------------------------
\* Bounds and inputs
\* ------------------------------------------------------------------------

\* the threads calling into the clocks
NumThreads == 2

\* the number of calls of getTimeStamp started in one behaviour of Spec
MaxCalls == 2

\* the number of calls of getTimeStamp started in one behaviour of SpecDist
MaxEvents == 3

Threads == 1 .. NumThreads

\* the clock instances (one per process); thread t uses clock clk[t]
Clocks == 1 .. NumThreads

\* pack(time, count) of two small integers, as a sender's clock would issue it
Stamp(time, count) == assembleTimeStamp(FromInt(time), FromInt(count))

\* the values getPhysicalTime() may return (milliseconds); any of them at any
\* read, so the physical clock may stall, advance or step back
PhysicalTimes == {FromInt(1000000), FromInt(2097152)}

\* the longest string handed to the decoders that is no output of
\* encodeTimeStamp
MaxStrLen == 3

\* the time stamps handed to encodeTimeStamp: 0, one and two symbols, zero
\* symbols inside, the top 4 bits set (11 symbols), and values of the clock
EncodeInputs ==
    { Zero, U64(0, 0, 1), U64(0, 0, 63), U64(0, 0, 64), U64(0, 0, 65),
      U64(0, 0, 127), U64(0, 0, 128), U64(0, 0, 4095), U64(0, 0, 4096), U64(0, 1, 0),
      U64(HighMod - 1, CountMod - 1, CountMod - 1), U64(HighMod - HighMod \div 16, 0, 0),
      U64(HighMod \div 16, 0, 1),
      Stamp(1000000, 0), Stamp(1000000, 1), Stamp(2000000, 5) }

\* the bytes of the strings that come from outside: the symbols of values 0,
\* 11 and 63 ('-', 'A', 'z') and two bytes that are no symbols ('?', 0xc8)
Bytes == {45, 65, 122, 63, 200}

\* the strings of at most n of these bytes
RECURSIVE StringsUpTo(_)
StringsUpTo(n) ==
    IF n = 0 THEN {<< >>}
    ELSE LET shorter == StringsUpTo(n - 1)
         IN  shorter \cup {Append(x, b) : x \in shorter, b \in Bytes}

\* the calls made on a clock that has a history
MaxStoredCalls == 1

\* the values a clock with a history may hold: the counter at its largest
\* (2^20 - 1 calls within one millisecond), the time even and odd, or not
StoredTimeStamps ==
    { Stamp(1048574, CountMod - 1), Stamp(1048575, CountMod - 1),
      Stamp(1048575, 7) }

\* the time stamps a peer outside the model may have sent
ReceivedTimeStamps ==
    { Stamp(2000000, 5), Stamp(2097152, 3), Stamp(1048574, 0), Stamp(1048575, 2) }

\* ------------------------------------------------------------------------
\* State
\* ------------------------------------------------------------------------

VARIABLES
    lastTimeStamp,  \* clock -> the atomic lastTimeStamp
    mo,             \* clock -> the values stored in it, in modification order
    commit,         \* the last successful compare_exchange
    clk,            \* thread -> the clock it calls
    pc,             \* thread -> position in getTimeStamp
    op,             \* thread -> "tick" (getTimeStamp()) or "recv" (getTimeStamp(r))
    receivedTimeStamp, \* thread -> the argument of getTimeStamp(r)
    physical,       \* thread -> the local physical
    oldTimeStamp,   \* thread -> the local oldTimeStamp
    newTimeStamp,   \* thread -> the local newTimeStamp
    seen,           \* thread -> how far in mo[clk[t]] the thread has read
    cause,          \* thread -> the vector time of the message being received
    budget,         \* the number of calls that may still start
    returned,       \* the completed calls
    net,            \* the time stamps sent to peers
    charIsSigned,   \* whether the build's plain char is signed
    encoded,        \* the last call of encodeTimeStamp: argument and result
    encodedBefore,  \* the call of encodeTimeStamp before it
    str,            \* the string at hand for the decoders
    decoded,        \* the result of decodeTimeStamp(str), once called
    checked         \* the result of decodeTimeStampWithCheck(str), once called

\* the state of the clocks and of the calls on them
clockVars == << lastTimeStamp, mo, commit, clk, pc, op, receivedTimeStamp, physical,
                oldTimeStamp, newTimeStamp, seen, cause, budget, returned, net >>

\* the state of the string codec
codecVars == << charIsSigned, encoded, encodedBefore, str, decoded, checked >>

vars == << clockVars, codecVars >>

\* no call of encodeTimeStamp
NotEncoded == [called |-> FALSE, t |-> Zero, s |-> << >>]

\* no call of a decoder
NotDecoded == [called |-> FALSE, value |-> Zero]

\* no codec function has been called; the build's char is as given
CodecIdle(charSigned) ==
    /\ charIsSigned = charSigned
    /\ encoded = NotEncoded
    /\ encodedBefore = NotEncoded
    /\ str = << >>
    /\ decoded = NotDecoded
    /\ checked = NotDecoded

\* the vector time of no event
ZeroVC == [c \in Clocks |-> 0]

\* the i-th value of lastTimeStamp of clock c in its modification order
ValueAt(c, i) == IF i = 0 THEN Zero ELSE mo[c][i].new

\* the vector time of the last event of clock c
ClockVC(c) == IF mo[c] = << >> THEN ZeroVC ELSE mo[c][Len(mo[c])].vc

\* the vector time of a new event of clock c caused by a message of time v
NextVC(c, v) ==
    [d \in Clocks |->
        LET a == ClockVC(c)[d]
            b == IF a < v[d] THEN v[d] ELSE a
        IN  IF d = c THEN b + 1 ELSE b]

\* the position in mo[clk[t]] of the last successful compare_exchange of thread t
LastCommitOf(t) ==
    LET s == mo[clk[t]]
    IN  CHOOSE k \in 1 .. Len(s) :
            s[k].thread = t /\ \A j \in (k + 1) .. Len(s) : s[j].thread # t

\* no compare_exchange has succeeded yet
NoCommit ==
    [clock |-> 0, thread |-> 0, op |-> "none", physical |-> Zero,
     received |-> Zero, old |-> Zero, new |-> Zero]

\* HybridLogicalClock() : lastTimeStamp(0); no call is in progress
InitWith(clocks, n) ==
    /\ lastTimeStamp = [c \in Clocks |-> Zero]
    /\ mo = [c \in Clocks |-> << >>]
    /\ commit = NoCommit
    /\ clk = clocks
    /\ pc = [t \in Threads |-> "idle"]
    /\ op = [t \in Threads |-> "tick"]
    /\ receivedTimeStamp = [t \in Threads |-> Zero]
    /\ physical = [t \in Threads |-> Zero]
    /\ oldTimeStamp = [t \in Threads |-> Zero]
    /\ newTimeStamp = [t \in Threads |-> Zero]
    /\ seen = [t \in Threads |-> 0]
    /\ cause = [t \in Threads |-> ZeroVC]
    /\ budget = n
    /\ returned = {}
    /\ net = {}
    /\ CodecIdle(TRUE)

\* one clock shared by all threads
Init == InitWith([t \in Threads |-> 1], MaxCalls)

\* one clock per thread (one process each)
InitDist == InitWith([t \in Threads |-> t], MaxEvents)

\* ------------------------------------------------------------------------
\* Operations
\* ------------------------------------------------------------------------

\* a thread enters getTimeStamp()
CallTick(t) ==
    /\ pc[t] = "idle"
    /\ budget > 0
    /\ budget' = budget - 1
    /\ pc' = [pc EXCEPT ![t] = "phys"]
    /\ op' = [op EXCEPT ![t] = "tick"]
    /\ UNCHANGED << lastTimeStamp, mo, commit, clk, receivedTimeStamp, physical,
                    oldTimeStamp, newTimeStamp, seen, cause, returned, net >>
    /\ UNCHANGED codecVars

\* a thread enters getTimeStamp(r) with a time stamp of a peer outside the model
CallUpdate(t, r) ==
    /\ pc[t] = "idle"
    /\ budget > 0
    /\ budget' = budget - 1
    /\ pc' = [pc EXCEPT ![t] = "phys"]
    /\ op' = [op EXCEPT ![t] = "recv"]
    /\ receivedTimeStamp' = [receivedTimeStamp EXCEPT ![t] = r]
    /\ UNCHANGED << lastTimeStamp, mo, commit, clk, physical, oldTimeStamp,
                    newTimeStamp, seen, cause, returned, net >>
    /\ UNCHANGED codecVars

\* a thread enters getTimeStamp(r) with the time stamp of a message sent by
\* another clock of the model
Deliver(t, msg) ==
    /\ pc[t] = "idle"
    /\ budget > 0
    /\ msg \in net
    /\ msg.from # clk[t]
    /\ budget' = budget - 1
    /\ pc' = [pc EXCEPT ![t] = "phys"]
    /\ op' = [op EXCEPT ![t] = "recv"]
    /\ receivedTimeStamp' = [receivedTimeStamp EXCEPT ![t] = msg.ts]
    /\ cause' = [cause EXCEPT ![t] = msg.vc]
    /\ UNCHANGED << lastTimeStamp, mo, commit, clk, physical, oldTimeStamp,
                    newTimeStamp, seen, returned, net >>
    /\ UNCHANGED codecVars

\* uint64_t physical = getPhysicalTime();
GetPhysicalTime(t, p) ==
    /\ pc[t] = "phys"
    /\ physical' = [physical EXCEPT ![t] = p]
    /\ pc' = [pc EXCEPT ![t] = "load"]
    /\ UNCHANGED << lastTimeStamp, mo, commit, clk, op, receivedTimeStamp, oldTimeStamp,
                    newTimeStamp, seen, cause, budget, returned, net >>
    /\ UNCHANGED codecVars

\* oldTimeStamp = lastTimeStamp.load(std::memory_order_relaxed); and the
\* computation of newTimeStamp from it.  A relaxed load returns the i-th
\* value of the modification order, for any i not before what the thread has
\* already read.
Load(t, i) ==
    /\ pc[t] = "load"
    /\ i \in seen[t] .. Len(mo[clk[t]])
    /\ LET old == ValueAt(clk[t], i)
       IN  /\ oldTimeStamp' = [oldTimeStamp EXCEPT ![t] = old]
           /\ newTimeStamp' = [newTimeStamp EXCEPT ![t] =
                  IF op[t] = "tick"
                  THEN tickNewTimeStamp(physical[t], old)
                  ELSE recvNewTimeStamp(physical[t], old, receivedTimeStamp[t])]
    /\ seen' = [seen EXCEPT ![t] = i]
    /\ pc' = [pc EXCEPT ![t] = "cas"]
    /\ UNCHANGED << lastTimeStamp, mo, commit, clk, op, receivedTimeStamp, physical,
                    cause, budget, returned, net >>
    /\ UNCHANGED codecVars

\* lastTimeStamp.compare_exchange_weak(oldTimeStamp, newTimeStamp, ...) succeeds:
\* lastTimeStamp holds oldTimeStamp and is set to newTimeStamp; the loop ends
CompareExchangeOk(t) ==
    /\ pc[t] = "cas"
    /\ lastTimeStamp[clk[t]] = oldTimeStamp[t]
    /\ lastTimeStamp' = [lastTimeStamp EXCEPT ![clk[t]] = newTimeStamp[t]]
    /\ mo' = [mo EXCEPT ![clk[t]] = Append(@,
                 [thread |-> t, new |-> newTimeStamp[t],
                  vc |-> NextVC(clk[t], cause[t])])]
    /\ commit' = [clock |-> clk[t], thread |-> t, op |-> op[t],
                  physical |-> physical[t], received |-> receivedTimeStamp[t],
                  old |-> oldTimeStamp[t], new |-> newTimeStamp[t]]
    /\ seen' = [seen EXCEPT ![t] = Len(mo[clk[t]]) + 1]
    /\ pc' = [pc EXCEPT ![t] = "ret"]
    /\ UNCHANGED << clk, op, receivedTimeStamp, physical, oldTimeStamp,
                    newTimeStamp, cause, budget, returned, net >>
    /\ UNCHANGED codecVars

\* a loop that, after a failed compare_exchange_weak, tries again with the
\* newTimeStamp it has
CompareExchangeFailKeep(t) ==
    /\ pc[t] = "cas"
    /\ lastTimeStamp[clk[t]] # oldTimeStamp[t]
    /\ oldTimeStamp' = [oldTimeStamp EXCEPT ![t] = lastTimeStamp[clk[t]]]
    /\ seen' = [seen EXCEPT ![t] = Len(mo[clk[t]])]
    /\ UNCHANGED << lastTimeStamp, mo, commit, clk, pc, op, receivedTimeStamp, physical,
                    newTimeStamp, cause, budget, returned, net >>
    /\ UNCHANGED codecVars

\* compare_exchange_weak fails, because lastTimeStamp differs from oldTimeStamp
\* or spuriously: oldTimeStamp receives the value found and the loop repeats;
\* physical, declared in the loop body, goes out of scope
CompareExchangeFail(t) ==
    /\ pc[t] = "cas"
    /\ oldTimeStamp' = [oldTimeStamp EXCEPT ![t] = lastTimeStamp[clk[t]]]
    /\ physical' = [physical EXCEPT ![t] = Zero]
    /\ seen' = [seen EXCEPT ![t] = Len(mo[clk[t]])]
    /\ pc' = [pc EXCEPT ![t] = "phys"]
    /\ UNCHANGED << lastTimeStamp, mo, commit, clk, op, receivedTimeStamp,
                    newTimeStamp, cause, budget, returned, net >>
    /\ UNCHANGED codecVars

\* the locals of a call that has returned
Leave(t) ==
    /\ pc' = [pc EXCEPT ![t] = "idle"]
    /\ op' = [op EXCEPT ![t] = "tick"]
    /\ receivedTimeStamp' = [receivedTimeStamp EXCEPT ![t] = Zero]
    /\ physical' = [physical EXCEPT ![t] = Zero]
    /\ oldTimeStamp' = [oldTimeStamp EXCEPT ![t] = Zero]
    /\ newTimeStamp' = [newTimeStamp EXCEPT ![t] = Zero]
    /\ cause' = [cause EXCEPT ![t] = ZeroVC]
    /\ returned' = returned \cup
                      {[clock |-> clk[t], pos |-> LastCommitOf(t),
                        value |-> newTimeStamp[t]]}

\* return newTimeStamp;
Return(t) ==
    /\ pc[t] = "ret"
    /\ Leave(t)
    /\ UNCHANGED << lastTimeStamp, mo, commit, clk, seen, budget, net >>
    /\ UNCHANGED codecVars

\* return newTimeStamp; and the caller sends the value to its peers
ReturnSend(t) ==
    /\ pc[t] = "ret"
    /\ Leave(t)
    /\ net' = net \cup {[from |-> clk[t], ts |-> newTimeStamp[t],
                         vc |-> mo[clk[t]][LastCommitOf(t)].vc]}
    /\ UNCHANGED << lastTimeStamp, mo, commit, clk, seen, budget >>
    /\ UNCHANGED codecVars

\* the steps of a call in progress
Step(t) ==
    \/ \E p \in PhysicalTimes : GetPhysicalTime(t, p)
    \/ \E i \in 0 .. Len(mo[clk[t]]) : Load(t, i)
    \/ CompareExchangeOk(t)
    \/ CompareExchangeFail(t)
    \/ Return(t)

Next ==
    \E t \in Threads :
        \/ CallTick(t)
        \/ \E r \in ReceivedTimeStamps : CallUpdate(t, r)
        \/ Step(t)

Spec == Init /\ [][Next]_vars

NextDist ==
    \E t \in Threads :
        \/ CallTick(t)
        \/ \E msg \in net : Deliver(t, msg)
        \/ Step(t)
        \/ ReturnSend(t)

SpecDist == InitDist /\ [][NextDist]_vars

\* ------------------------------------------------------------------------
\* A clock with a history: lastTimeStamp holds the value the earlier calls
\* have left, the first entry of the modification order
\* ------------------------------------------------------------------------

InitStored ==
    /\ \E v \in StoredTimeStamps :
           /\ lastTimeStamp = [c \in Clocks |-> IF c = 1 THEN v ELSE Zero]
           /\ mo = [c \in Clocks |->
                       IF c = 1
                       THEN << [thread |-> 0, new |-> v,
                                vc |-> [d \in Clocks |-> IF d = 1 THEN 1 ELSE 0]] >>
                       ELSE << >>]
    /\ commit = NoCommit
    /\ clk = [t \in Threads |-> 1]
    /\ pc = [t \in Threads |-> "idle"]
    /\ op = [t \in Threads |-> "tick"]
    /\ receivedTimeStamp = [t \in Threads |-> Zero]
    /\ physical = [t \in Threads |-> Zero]
    /\ oldTimeStamp = [t \in Threads |-> Zero]
    /\ newTimeStamp = [t \in Threads |-> Zero]
    /\ seen = [t \in Threads |-> 1]
    /\ cause = [t \in Threads |-> ZeroVC]
    /\ budget = MaxStoredCalls
    /\ returned = {}
    /\ net = {}
    /\ CodecIdle(TRUE)

SpecStored == InitStored /\ [][Next]_vars

\* ------------------------------------------------------------------------
\* The calls under a compare_exchange that fails only when lastTimeStamp
\* differs from oldTimeStamp, every thread taking its steps
\* ------------------------------------------------------------------------

\* a compare_exchange that fails though lastTimeStamp holds oldTimeStamp
CompareExchangeSpurious(t) ==
    /\ lastTimeStamp[clk[t]] = oldTimeStamp[t]
    /\ CompareExchangeFail(t)

\* the compare_exchange fails because lastTimeStamp differs from oldTimeStamp
CompareExchangeDiffers(t) ==
    /\ lastTimeStamp[clk[t]] # oldTimeStamp[t]
    /\ CompareExchangeFail(t)

\* the steps of a call in progress, the compare_exchange never failing
\* spuriously
StepStrong(t) ==
    \/ \E p \in PhysicalTimes : GetPhysicalTime(t, p)
    \/ \E i \in 0 .. Len(mo[clk[t]]) : Load(t, i)
    \/ CompareExchangeOk(t)
    \/ CompareExchangeDiffers(t)
    \/ Return(t)

NextFair ==
    \E t \in Threads :
        \/ CallTick(t)
        \/ \E r \in ReceivedTimeStamps : CallUpdate(t, r)
        \/ StepStrong(t)

SpecFair ==
    /\ Init
    /\ [][NextFair]_vars
    /\ \A t \in Threads : WF_vars(StepStrong(t))

\* ------------------------------------------------------------------------
\* The string codec in use: time stamps are encoded, strings arrive and are
\* decoded.  No clock is involved.
\* ------------------------------------------------------------------------

\* the clocks are fresh and idle; the build's char is signed or unsigned
InitCodec ==
    /\ lastTimeStamp = [c \in Clocks |-> Zero]
    /\ mo = [c \in Clocks |-> << >>]
    /\ commit = NoCommit
    /\ clk = [t \in Threads |-> 1]
    /\ pc = [t \in Threads |-> "idle"]
    /\ op = [t \in Threads |-> "tick"]
    /\ receivedTimeStamp = [t \in Threads |-> Zero]
    /\ physical = [t \in Threads |-> Zero]
    /\ oldTimeStamp = [t \in Threads |-> Zero]
    /\ newTimeStamp = [t \in Threads |-> Zero]
    /\ seen = [t \in Threads |-> 0]
    /\ cause = [t \in Threads |-> ZeroVC]
    /\ budget = 0
    /\ returned = {}
    /\ net = {}
    /\ \E b \in BOOLEAN : CodecIdle(b)

\* encodeTimeStamp(t); its result is at hand for the decoders
Encode(t) ==
    /\ encoded' = [called |-> TRUE, t |-> t, s |-> encodeTimeStamp(t)]
    /\ encodedBefore' = encoded
    /\ str' = encodeTimeStamp(t)
    /\ decoded' = NotDecoded
    /\ checked' = NotDecoded
    /\ UNCHANGED << clockVars, charIsSigned >>

\* a string arrives from outside
Arrive(s) ==
    /\ str' = s
    /\ encoded' = NotEncoded
    /\ encodedBefore' = NotEncoded
    /\ decoded' = NotDecoded
    /\ checked' = NotDecoded
    /\ UNCHANGED << clockVars, charIsSigned >>

\* decodeTimeStamp(str)
Decode ==
    /\ ~decoded.called
    /\ decoded' = [called |-> TRUE, value |-> decodeTimeStamp(str)]
    /\ UNCHANGED << clockVars, charIsSigned, encoded, encodedBefore, str, checked >>

\* decodeTimeStampWithCheck(str)
DecodeWithCheck ==
    /\ ~checked.called
    /\ checked' = [called |-> TRUE,
                   value |-> decodeTimeStampWithCheck(str, charIsSigned)]
    /\ UNCHANGED << clockVars, charIsSigned, encoded, encodedBefore, str, decoded >>

NextCodec ==
    \/ \E t \in EncodeInputs : Encode(t)
    \/ \E s \in StringsUpTo(MaxStrLen) : Arrive(s)
    \/ Decode
    \/ DecodeWithCheck

SpecCodec == InitCodec /\ [][NextCodec]_vars

\* ------------------------------------------------------------------------
\* The vocabulary of the properties: the fields of a packed time stamp,
\* computed on the limbs without the helpers of the class
\* ------------------------------------------------------------------------

\* the largest counter, 0xfffff
Mask == CountMod - 1

\* the time field (high 44 bits) of a time stamp, as a number
TimeOf(ts) == U64(ts.h \div CountMod, ts.h % CountMod, ts.m)

\* the counter field (low 20 bits) of a time stamp, as an integer
CounterOf(ts) == ts.l

\* the low 20 bits of the time field of a time stamp
TimeLowOf(ts) == ts.m

\* pack(time, count) == (time << 20) | count for a time below 2^44 and a
\* count of at most 2^20: a count of 2^20 sets the lowest bit of the time
Pack(time, count) ==
    U64(time.h * CountMod + time.m,
        IF count < CountMod THEN time.l ELSE time.l + (1 - (time.l % 2)),
        count % CountMod)

\* the largest of three numbers
Max3(a, b, c) ==
    LET ab == IF Less(a, b) THEN b ELSE a
    IN  IF Less(ab, c) THEN c ELSE ab

\* the larger of two integers
MaxInt(a, b) == IF a < b THEN b ELSE a

\* a compare_exchange has succeeded, in getTimeStamp()
Ticked == commit.op = "tick"

\* a compare_exchange has succeeded, in getTimeStamp(receivedTimeStamp)
Merged == commit.op = "recv"

\* No call has come near a counter overflow: no value stored in a clock and no
\* received time stamp has a counter of 0xfffff, or a time whose low 20 bits
\* are 0xfffff (the bits the merge takes its counter from).
NoOverflow ==
    /\ \A c \in Clocks : \A i \in 1 .. Len(mo[c]) :
           CounterOf(mo[c][i].new) # Mask /\ TimeLowOf(mo[c][i].new) # Mask
    /\ CounterOf(commit.received) # Mask
    /\ TimeLowOf(commit.received) # Mask

\* event a happened before event b (vector times)
HappenedBefore(a, b) == a # b /\ \A c \in Clocks : a[c] <= b[c]

\* ------------------------------------------------------------------------
\* The properties
\* ------------------------------------------------------------------------

\* C1: as long as no counter overflows, every successful compare_exchange
\* installs a value strictly greater than the one it replaces, so the values
\* stored in a clock are strictly increasing in commit order.
C1_CommitsStrictlyIncrease ==
    NoOverflow =>
        /\ commit.op # "none" => Less(commit.old, commit.new)
        /\ \A c \in Clocks : \A i, j \in 1 .. Len(mo[c]) :
               i < j => Less(mo[c][i].new, mo[c][j].new)

\* C2: merge dominance: as long as no counter overflows, the value installed
\* by getTimeStamp(received) is strictly greater than received and strictly
\* greater than every time stamp the clock has returned before.
C2_MergeDominates ==
    (Merged /\ NoOverflow) =>
        /\ Less(commit.received, commit.new)
        /\ \A r \in returned :
               (r.clock = commit.clock /\ r.pos < Len(mo[commit.clock]))
                   => Less(r.value, commit.new)

\* C3: causal ordering: with one clock per process and every message stamped
\* by its sender and merged by its receiver, an event that happened before
\* another has the strictly smaller time stamp (no counter overflowing).
C3_CausalOrder ==
    NoOverflow =>
        \A c, d \in Clocks : \A i \in 1 .. Len(mo[c]) : \A j \in 1 .. Len(mo[d]) :
            HappenedBefore(mo[c][i].vc, mo[d][j].vc)
                => Less(mo[c][i].new, mo[d][j].new)

\* C4: getTimeStamp() installs a value strictly greater than the stored value
\* it replaces, whenever the stored counter is below 0xfffff and the physical
\* time is below 2^44, whichever thread succeeds.
C4_TickStrictlyIncreases ==
    (Ticked /\ CounterOf(commit.old) < Mask /\ commit.physical.h < HighKeep)
        => Less(commit.old, commit.new)

\* C4 witness: two threads raced on one clock and the second to succeed was a
\* getTimeStamp() whose physical time was behind the stored time.
C4_Witness ==
    /\ Ticked
    /\ Len(mo[commit.clock]) = 2
    /\ mo[commit.clock][1].thread # commit.thread
    /\ Less(commit.physical, TimeOf(commit.old))
    /\ CounterOf(commit.old) < Mask
    /\ Less(commit.old, commit.new)

\* C5: no two completed calls on one clock return the same value (no counter
\* overflowing).
C5_ReturnedValuesUnique ==
    NoOverflow =>
        \A r1, r2 \in returned :
            (r1 # r2 /\ r1.clock = r2.clock) => r1.value # r2.value

\* C6: getTimeStamp(received) takes its counter from the counter fields of
\* old and received: with newTime the largest of old.time, physical and
\* received.time, the counter is max(old.counter, received.counter) + 1 when
\* both times equal newTime, old.counter + 1 when only old.time does,
\* received.counter + 1 when only received.time does, and 0 otherwise.
C6_MergeCounterFromCounterFields ==
    Merged =>
        LET oldTime == TimeOf(commit.old)
            recTime == TimeOf(commit.received)
            newTime == Max3(oldTime, commit.physical, recTime)
            newCount ==
                IF newTime = oldTime /\ newTime = recTime
                THEN MaxInt(CounterOf(commit.old), CounterOf(commit.received)) + 1
                ELSE IF newTime = oldTime THEN CounterOf(commit.old) + 1
                ELSE IF newTime = recTime THEN CounterOf(commit.received) + 1
                ELSE 0
        IN  newCount < CountMod => commit.new = Pack(newTime, newCount)

\* C7: when received.time is strictly greater than the stored time and than
\* the physical time, getTimeStamp(received) returns
\* pack(received.time, received.counter + 1); so pack(2000000, 6) for
\* received = pack(2000000, 5).
C7_ReceivedTimeDominates ==
    ( /\ Merged
      /\ Less(TimeOf(commit.old), TimeOf(commit.received))
      /\ Less(commit.physical, TimeOf(commit.received))
      /\ CounterOf(commit.received) < Mask )
        => commit.new = Pack(TimeOf(commit.received), CounterOf(commit.received) + 1)

\* C8: counter reset: when the physical time is strictly greater than the
\* stored time and than the received time, getTimeStamp(received) returns the
\* physical time with counter 0.
C8_CounterReset ==
    ( /\ Merged
      /\ Less(TimeOf(commit.old), commit.physical)
      /\ Less(TimeOf(commit.received), commit.physical) )
        => TimeOf(commit.new) = commit.physical /\ CounterOf(commit.new) = 0

\* C8 witness: a merge on a clock that already holds a time, with the
\* physical time ahead of that time and of the received time.
C8_Witness ==
    /\ Merged
    /\ commit.old # Zero
    /\ Less(TimeOf(commit.old), commit.physical)
    /\ Less(TimeOf(commit.received), commit.physical)
    /\ CounterOf(commit.received) > 0
    /\ CounterOf(commit.new) = 0

\* C9: getTimeStamp() returns pack(physical, 0) when physical > old.time and
\* pack(old.time, old.counter + 1) when physical <= old.time; from a fresh
\* clock and with the physical time at 1000000, the first call returns
\* pack(1000000, 0) and the second pack(1000000, 1).
C9_TickValue ==
    Ticked =>
        /\ Less(TimeOf(commit.old), commit.physical)
               => commit.new = Pack(commit.physical, 0)
        /\ ~Less(TimeOf(commit.old), commit.physical)
               => commit.new = Pack(TimeOf(commit.old), CounterOf(commit.old) + 1)
        /\ (commit.old = Zero /\ commit.physical = U64(0, 0, 1000000))
               => commit.new = U64(0, 1000000, 0)
        /\ (commit.old = U64(0, 1000000, 0) /\ commit.physical = U64(0, 0, 1000000))
               => commit.new = U64(0, 1000000, 1)

\* C9 witness: the second of two getTimeStamp() calls on a fresh clock, both
\* with the physical time at 1000000, has returned pack(1000000, 1).
C9_Witness ==
    /\ Ticked
    /\ Len(mo[commit.clock]) = 2
    /\ mo[commit.clock][1].new = U64(0, 1000000, 0)
    /\ commit.old = U64(0, 1000000, 0)
    /\ commit.physical = U64(0, 0, 1000000)
    /\ \E r \in returned : r.pos = 2 /\ r.value = U64(0, 1000000, 1)

\* C10: the time field of the value returned by getTimeStamp(received) is the
\* largest of old.time, physical and received.time, hence not below the
\* physical time read (physical times are below 2^44).
C10_MergeTimeIsMax ==
    (Merged /\ commit.physical.h < HighKeep) =>
        /\ TimeOf(commit.new)
               = Max3(TimeOf(commit.old), commit.physical, TimeOf(commit.received))
        /\ ~Less(TimeOf(commit.new), commit.physical)

\* C10 witness: a merge whose counter reached 2^20 (the received time, the
\* largest, ends in twenty 1 bits): the time field is still the largest time.
C10_Witness ==
    /\ Merged
    /\ TimeLowOf(commit.received) = Mask
    /\ Less(TimeOf(commit.old), TimeOf(commit.received))
    /\ Less(commit.physical, TimeOf(commit.received))
    /\ TimeOf(commit.new) = TimeOf(commit.received)
    /\ CounterOf(commit.new) = 0

\* ------------------------------------------------------------------------
\* The string codec
\* ------------------------------------------------------------------------

\* the number of bits of n up to its most significant 1
RECURSIVE BitLenInt(_)
BitLenInt(n) == IF n = 0 THEN 0 ELSE 1 + BitLenInt(n \div 2)

\* the number of bits of a 64-bit value up to its most significant 1
BitLen(t) ==
    IF t.h # 0 THEN 2 * CountBits + BitLenInt(t.h)
    ELSE IF t.m # 0 THEN CountBits + BitLenInt(t.m)
    ELSE BitLenInt(t.l)

\* the number of 6-bit groups up to and including the most significant
\* non-zero one
Groups(t) == (BitLen(t) + SymbolBits - 1) \div SymbolBits

\* the 64 symbols of the alphabet
Alphabet == {encodeTable[n] : n \in 1 .. SymbolMod}

\* every character of s is a symbol of the alphabet
AllSymbols(s) == \A i \in 1 .. Len(s) : s[i] \in Alphabet

\* a < b under std::string's comparison: character by character, each as an
\* unsigned byte, a proper prefix first
RECURSIVE StrLessFrom(_, _, _)
StrLessFrom(a, b, i) ==
    IF i > Len(b) THEN FALSE
    ELSE IF i > Len(a) THEN TRUE
    ELSE IF a[i] # b[i] THEN a[i] < b[i]
    ELSE StrLessFrom(a, b, i + 1)

StrLess(a, b) == StrLessFrom(a, b, 1)

\* C11: round trip.  decodeTimeStamp(encodeTimeStamp(t)) = t for every time
\* stamp t, among them 0, values with all-zero inner 6-bit groups and values
\* with the top 4 bits set.
C11_RoundTrip ==
    (encoded.called /\ decoded.called) =>
        /\ str = encoded.s
        /\ decoded.value = encoded.t

\* a time stamp with the top 4 bits set has been encoded to 11 characters
\* and decoded again
C11_Witness ==
    /\ encoded.called
    /\ decoded.called
    /\ encoded.t.h >= HighMod - HighMod \div 16
    /\ Len(encoded.s) = EncodedMax
    /\ decoded.value = encoded.t

\* C12: checked decoding.  decodeTimeStampWithCheck returns 0 for every
\* string with at least one character outside the alphabet, wherever it stands,
\* and never a partially accumulated value.
C12_InvalidGivesZero ==
    (checked.called /\ ~AllSymbols(str)) => checked.value = Zero

\* C13: minimal length.  The output of encodeTimeStamp has at most 11
\* characters, as many as there are 6-bit groups up to the most significant
\* non-zero one, its first character is never the symbol of value 0,
\* encodeTimeStamp(0) is the empty string and decodeTimeStamp("") is 0.
C13_MinimalLength ==
    /\ encoded.called =>
            /\ Len(encoded.s) <= EncodedMax
            /\ Len(encoded.s) = Groups(encoded.t)
            /\ Len(encoded.s) > 0 => encoded.s[1] # encodeTable[1]
            /\ encoded.t = Zero => encoded.s = << >>
    /\ (decoded.called /\ str = << >>) => decoded.value = Zero

\* a time stamp whose inner 6-bit groups are zero has been encoded: three
\* characters, the last two the symbol of value 0
C13_Witness ==
    /\ encoded.called
    /\ Len(encoded.s) = 3
    /\ encoded.s[1] # encodeTable[1]
    /\ encoded.s[2] = encodeTable[1]
    /\ encoded.s[3] = encodeTable[1]

C20_DecodersAgree ==
    /\ (checked.called /\ decoded.called /\ AllSymbols(str))
           => checked.value = decoded.value
    /\ (checked.called /\ encoded.called) => checked.value = encoded.t

\* an encoded time stamp with a symbol of value 0 in it has gone through both
\* decoders
C20_Witness ==
    /\ encoded.called
    /\ checked.called
    /\ decoded.called
    /\ \E i \in 1 .. Len(str) : str[i] = encodeTable[1]
    /\ encoded.t # Zero
    /\ checked.value = encoded.t
    /\ decoded.value = encoded.t

\* ------------------------------------------------------------------------
\* The compare-and-swap loop
\* ------------------------------------------------------------------------

\* the new time stamp the code computes for the call of thread t from the
\* given physical time and stored value
Candidate(t, phys, old) ==
    IF op[t] = "tick"
    THEN tickNewTimeStamp(phys, old)
    ELSE recvNewTimeStamp(phys, old, receivedTimeStamp[t])

\* thread t's compare-and-swap succeeds in this step
Commits(t) == pc[t] = "cas" /\ pc'[t] = "ret"

\* thread t's compare-and-swap fails in this step
FailsCas(t) == pc[t] = "cas" /\ pc'[t] # "cas" /\ pc'[t] # "ret"

\* C15: atomic commit.  A call changes lastTimeStamp exactly once, at its
\* successful compare-and-swap, from the old value its candidate was computed
\* from to the value it returns; a failed compare-and-swap leaves lastTimeStamp
\* unchanged and the call computes its candidate anew, from a new reading of
\* the physical time and a new load of lastTimeStamp.
C15_AtomicCommit ==
    [][ /\ (lastTimeStamp' # lastTimeStamp \/ mo' # mo) =>
               \E t \in Threads :
                   /\ Commits(t)
                   /\ \A u \in Threads \ {t} : ~Commits(u)
                   /\ lastTimeStamp[clk[t]] = oldTimeStamp[t]
                   /\ newTimeStamp[t] = Candidate(t, physical[t], oldTimeStamp[t])
                   /\ lastTimeStamp' = [lastTimeStamp EXCEPT ![clk[t]] = newTimeStamp[t]]
                   /\ mo'[clk[t]] = Append(mo[clk[t]], mo'[clk[t]][Len(mo[clk[t]]) + 1])
                   /\ mo'[clk[t]][Len(mo[clk[t]]) + 1].new = newTimeStamp[t]
                   /\ mo'[clk[t]][Len(mo[clk[t]]) + 1].thread = t
        /\ \A t \in Threads :
               /\ Commits(t) => lastTimeStamp' # lastTimeStamp \/ mo' # mo
               /\ FailsCas(t) => pc'[t] = "phys" /\ lastTimeStamp' = lastTimeStamp
               /\ (pc[t] = "phys" /\ pc'[t] # "phys") => pc'[t] = "load"
               /\ (pc[t] = "load" /\ pc'[t] # "load") =>
                       /\ pc'[t] = "cas"
                       /\ physical'[t] = physical[t]
                       /\ \E i \in seen[t] .. Len(mo[clk[t]]) :
                              oldTimeStamp'[t] = ValueAt(clk[t], i)
                       /\ newTimeStamp'[t] =
                              Candidate(t, physical'[t], oldTimeStamp'[t])
               /\ (pc[t] = "cas" /\ pc'[t] = "cas") =>
                       /\ physical'[t] = physical[t]
                       /\ oldTimeStamp'[t] = oldTimeStamp[t]
                       /\ newTimeStamp'[t] = newTimeStamp[t]
               /\ (pc[t] = "ret" /\ pc'[t] # "ret") =>
                       /\ pc'[t] = "idle"
                       /\ \E r \in returned' :
                              /\ r.clock = clk[t]
                              /\ r.pos = LastCommitOf(t)
                              /\ r.value = mo[clk[t]][r.pos].new
               /\ (pc[t] # "idle" /\ pc'[t] = "idle") => pc[t] = "ret"
      ]_vars

\* a call has failed its compare-and-swap after another call's commit:
\* lastTimeStamp holds the value of that commit, and the call is to read the
\* physical time again
C15_Witness ==
    \E t \in Threads :
        /\ pc[t] = "phys"
        /\ newTimeStamp[t] # Zero
        /\ Len(mo[clk[t]]) = 1
        /\ commit.thread # t
        /\ lastTimeStamp[clk[t]] = commit.new
        /\ lastTimeStamp[clk[t]] # newTimeStamp[t]
        /\ oldTimeStamp[t] = commit.new

\* C16: lock-free progress.  With the compare-and-swap failing only when
\* lastTimeStamp differs from the value read, every failed attempt comes after
\* the commit of another call since the read, and with every thread taking
\* its steps every call returns.
C16_LockFreeProgress ==
    /\ [][ \A t \in Threads :
               FailsCas(t) =>
                   \E k \in (seen[t] + 1) .. Len(mo[clk[t]]) :
                       mo[clk[t]][k].thread # t ]_vars
    /\ \A t \in Threads : (pc[t] # "idle") ~> (pc[t] = "idle")

\* a call has returned after the commit of another call
C16_Witness ==
    \E r \in returned :
        /\ r.pos = 2
        /\ mo[r.clock][1].thread # mo[r.clock][2].thread
        /\ \A t \in Threads : pc[t] = "idle"
        /\ budget = 0

\* ------------------------------------------------------------------------
\* The time field and the counter at its limit
\* ------------------------------------------------------------------------

\* the time field of no value in the modification order of a clock is below
\* the time field of the value before it
TimeNeverDecreases ==
    /\ ~Less(TimeOf(commit.new), TimeOf(commit.old))
    /\ \A c \in Clocks : \A k \in 1 .. Len(mo[c]) :
           ~Less(TimeOf(mo[c][k].new), TimeOf(ValueAt(c, k - 1)))

\* the last commit is a getTimeStamp() whose physical time was not ahead of
\* the stored time
Stalled == Ticked /\ Leq(commit.physical, TimeOf(commit.old))

\* C17 as stated: the time field of the stored value never decreases, and a
\* getTimeStamp() with physical <= old.time keeps old.time and changes the
\* counter only.
C17_TimeKept ==
    /\ TimeNeverDecreases
    /\ Stalled => TimeOf(commit.new) = TimeOf(commit.old)

\* C17: the time field of the stored value never decreases; a
\* getTimeStamp() with physical <= old.time keeps old.time and adds one to the
\* counter, unless the counter is 2^20 - 1: then the counter becomes 0 and the
\* time field is old.time with its lowest bit set.
C17_TimeNeverDecreases ==
    /\ TimeNeverDecreases
    /\ (Stalled /\ CounterOf(commit.old) < Mask) =>
           /\ TimeOf(commit.new) = TimeOf(commit.old)
           /\ CounterOf(commit.new) = CounterOf(commit.old) + 1
    /\ (Stalled /\ CounterOf(commit.old) = Mask) =>
           /\ CounterOf(commit.new) = 0
           /\ TimeOf(commit.new) =
                  Or64(TimeOf(commit.old), U64(0, 0, 1))

\* the physical time is behind the stored time and a getTimeStamp() has kept
\* the stored time
C17_Witness ==
    /\ Stalled
    /\ Less(commit.physical, TimeOf(commit.old))
    /\ CounterOf(commit.old) < Mask
    /\ TimeOf(commit.new) = TimeOf(commit.old)
    /\ \E r \in returned : r.value = commit.new

\* C18: at the counter's limit getTimeStamp() stays strictly increasing:
\* with the stored counter at 2^20 - 1 and physical <= old.time, old.time even
\* or odd, the value installed is greater than the value it replaces.
C18_TickIncreasesAtOverflow ==
    (Stalled /\ CounterOf(commit.old) = Mask) => Less(commit.old, commit.new)

\* C19: a received time stamp whose time is below max(old.time, physical)
\* changes nothing: getTimeStamp(received) returns what getTimeStamp() returns
\* from the same stored value and the same physical time.
C19_StaleReceivedIsTick ==
    ( /\ Merged
      /\ Less(TimeOf(commit.received),
              Max64(TimeOf(commit.old), commit.physical)) )
        => commit.new = tickNewTimeStamp(commit.physical, commit.old)

====
